---- MODULE Spec2Model ----
(***************************************************************************)
(* A model of reltab-local.js: the in-memory relational operators and the  *)
(* common-subexpression (value numbering) evaluator that drives them.      *)
(*                                                                         *)
(* Value numbers are 0-based as in the source; TLA+ sequences are 1-based, *)
(* so valExps[n + 1] is the source's valExps[n].                           *)
(***************************************************************************)
EXTENDS Integers, Sequences, FiniteSets, TLC

(***************************************************************************)
(* Bounds of the model.                                                    *)
(***************************************************************************)
\* Depth of the query trees handed to localEvalQuery (0: a single leaf).
MaxDepth == 2
\* Number of evalTable requests made on the evaluator after localEvalQuery's.
MaxRequests == 1

(***************************************************************************)
(* Cell values.  A cell is a number, a string (a sequence of character     *)
(* codes, so that JavaScript's < on strings can be computed) or null.      *)
(***************************************************************************)
Null == [k |-> "null", n |-> 0, s |-> <<>>]
Num(i) == [k |-> "number", n |-> i, s |-> <<>>]
Str(cs) == [k |-> "string", n |-> 0, s |-> cs]
\* What reading a missing array element or object property yields.
UndefinedCell == [k |-> "undefined", n |-> 0, s |-> <<>>]

\* The value of an expression that produced no table (JavaScript's undefined).
Undefined == [undefined |-> TRUE]
IsUndefined(t) == "undefined" \in DOMAIN t

(***************************************************************************)
(* Schema and TableRep (constructed by reltab.js).                         *)
(***************************************************************************)
Schema(columns, columnMetadata) == [columns |-> columns, columnMetadata |-> columnMetadata]
TableRep(schema, rowData) == [schema |-> schema, rowData |-> rowData]

\* schema.columnIndex(colId): the 1-based position of colId, 0 when the
\* source's lookup yields undefined.  The source's map is filled left to
\* right, so a repeated identifier resolves to its last position.
ColumnIndex(schema, colId) ==
  LET hits == {i \in 1..Len(schema.columns) : schema.columns[i] = colId}
  IN IF hits = {} THEN 0 ELSE CHOOSE i \in hits : \A j \in hits : j <= i

\* schema.columnType(colId)
ColumnType(schema, colId) ==
  IF colId \in DOMAIN schema.columnMetadata THEN schema.columnMetadata[colId].type ELSE ""

\* schema.compatCheck(sb): same column identifiers, in order, with equal types.
CompatCheck(sa, sb) ==
  /\ Len(sa.columns) = Len(sb.columns)
  /\ \A i \in 1..Len(sa.columns) :
       /\ sa.columns[i] = sb.columns[i]
       /\ ColumnType(sa, sa.columns[i]) = ColumnType(sb, sb.columns[i])

\* d3a.permute(row, perm): the cells of row at the positions of perm; a
\* position that does not exist reads as undefined.
Permute(row, perm) ==
  [i \in 1..Len(perm) |-> IF perm[i] \in 1..Len(row) THEN row[perm[i]] ELSE UndefinedCell]

\* The outcome of a call: a returned table, or a thrown error.
Return(t) == [threw |-> FALSE, error |-> "", tres |-> t]
Throw(e) == [threw |-> TRUE, error |-> e, tres |-> Undefined]

(***************************************************************************)
(* JSON.stringify on the values the engine serialises.  A function inside  *)
(* an array serialises as null, exactly as the null value does.            *)
(***************************************************************************)
JSONValue(v) ==
  IF v.k = "undefined" THEN [lit |-> "null", n |-> 0, s |-> <<>>]
  ELSE [lit |-> v.k, n |-> v.n, s |-> v.s]
JSONNull == [lit |-> "null", n |-> 0, s |-> <<>>]

\* The third argument of extend: a generator function or a constant.
Generator(f) == [isFn |-> TRUE, fn |-> f, val |-> Null]
Constant(v) == [isFn |-> FALSE, fn |-> "", val |-> v]
NoExtendVal == Constant(Null)

JSONExtendVal(ev) == IF ev.isFn THEN JSONNull ELSE JSONValue(ev.val)

\* JSON.stringify(query.valArgs)
JSONStringifyArgs(valArgs) == [valArgs EXCEPT !.ev = JSONExtendVal(@)]

\* JSON.stringify(keyData)
JSONStringifyRow(keyData) == [i \in 1..Len(keyData) |-> JSONValue(keyData[i])]

(***************************************************************************)
(* The relational operators.  Each XImpl(args, subTables) is the source's  *)
(* XImpl(args)(subTables).  Reading a property of an undefined table is a  *)
(* TypeError.                                                              *)
(***************************************************************************)
\* calcProjectionPermutation: the outcome carries the permutation in perm.
CalcProjectionPermutation(inSchema, projectCols) ==
  IF \E i \in 1..Len(projectCols) : projectCols[i] \notin DOMAIN inSchema.columnMetadata
  THEN [threw |-> TRUE, error |-> "project: unknown column Id", perm |-> <<>>]
  ELSE [threw |-> FALSE, error |-> "",
        perm |-> [i \in 1..Len(projectCols) |-> ColumnIndex(inSchema, projectCols[i])]]

ProjectImpl(projectCols, subTables) ==
  LET tableData == subTables[1] IN
  IF IsUndefined(tableData) THEN Throw("TypeError")
  ELSE LET ps == CalcProjectionPermutation(tableData.schema, projectCols) IN
       IF ps.threw THEN Throw(ps.error)
       ELSE Return(TableRep(Schema(projectCols, tableData.schema.columnMetadata),
                            [r \in 1..Len(tableData.rowData) |->
                               Permute(tableData.rowData[r], ps.perm)]))

\* The generator functions handed to extend in this model: the functions
\* row => 1 and row => 2.
ApplyGenerator(fn, rowMap) == IF fn = "one" THEN Num(1) ELSE Num(2)

\* _.extend(cMap, inSchema.columnMetadata): the properties of the second
\* argument are assigned onto the first.
LodashExtend(cMap, columnMetadata) ==
  [c \in DOMAIN cMap \cup DOMAIN columnMetadata |->
     IF c \in DOMAIN columnMetadata THEN columnMetadata[c] ELSE cMap[c]]

ExtendImpl(colId, columnMetadata, ev, subTables) ==
  LET tableData == subTables[1] IN
  IF IsUndefined(tableData) THEN Throw("TypeError")
  ELSE LET inSchema == tableData.schema
           outCols == Append(inSchema.columns, colId)
           cMap == [c \in {colId} |-> columnMetadata]
           outMetadata == LodashExtend(cMap, inSchema.columnMetadata)
           outVal(inRow) == IF ev.isFn THEN ApplyGenerator(ev.fn, inRow) ELSE ev.val
       IN Return(TableRep(Schema(outCols, outMetadata),
                          [r \in 1..Len(tableData.rowData) |->
                             Append(tableData.rowData[r], outVal(tableData.rowData[r]))]))

\* The entry of a column map for one input column: cmap[key] when the map
\* has the key.  A ColumnMapInfo is a function from some of "id", "type"
\* and "displayName" to strings.
NoColumnMapInfo == [defined |-> FALSE, info |-> <<>>]
ColumnMapInfo(info) == [defined |-> TRUE, info |-> info]

RECURSIVE MapColumnsLoop(_, _, _, _)
\* The loop of mapColumnsImpl and of mapColumnsByIndexImpl from column i on,
\* entries[i] being the map's entry for column i.  JSON.stringify of a
\* column without metadata is undefined, which JSON.parse rejects.
MapColumnsLoop(inSchema, entries, i, st) ==
  IF i > Len(inSchema.columns) \/ st.threw THEN st
  ELSE LET inColumnId == inSchema.columns[i]
           cmapColumnInfo == entries[i]
           known == inColumnId \in DOMAIN inSchema.columnMetadata
       IN
       IF ~cmapColumnInfo.defined
       THEN MapColumnsLoop(inSchema, entries, i + 1,
              [st EXCEPT !.outColumns = Append(@, inColumnId),
                         !.outMetadata = IF known
                                         THEN (inColumnId :> inSchema.columnMetadata[inColumnId]) @@ @
                                         ELSE @])
       ELSE IF ~known THEN [st EXCEPT !.threw = TRUE]
       ELSE LET info == cmapColumnInfo.info
                outColumnId == IF "id" \in DOMAIN info THEN info["id"] ELSE inColumnId
                inColumnInfo == inSchema.columnMetadata[inColumnId]
                keys == DOMAIN info \ {"id"}
                outColumnInfo == [key \in DOMAIN inColumnInfo \cup keys |->
                                    IF key \in keys THEN info[key] ELSE inColumnInfo[key]]
            IN MapColumnsLoop(inSchema, entries, i + 1,
                 [st EXCEPT !.outColumns = Append(@, outColumnId),
                            !.outMetadata = (outColumnId :> outColumnInfo) @@ @])

MapColumnsOutcome(tableData, entries) ==
  LET st == MapColumnsLoop(tableData.schema, entries, 1,
                           [outColumns |-> <<>>, outMetadata |-> <<>>, threw |-> FALSE])
  IN IF st.threw THEN Throw("SyntaxError")
     ELSE Return(TableRep(Schema(st.outColumns, st.outMetadata), tableData.rowData))

\* mapColumnsImpl(cmap): cmap is keyed by column identifier
MapColumnsImpl(cmap, subTables) ==
  LET tableData == subTables[1] IN
  IF IsUndefined(tableData) THEN Throw("TypeError")
  ELSE MapColumnsOutcome(tableData,
         [i \in 1..Len(tableData.schema.columns) |->
            IF tableData.schema.columns[i] \in DOMAIN cmap
            THEN ColumnMapInfo(cmap[tableData.schema.columns[i]]) ELSE NoColumnMapInfo])

\* mapColumnsByIndexImpl(cmap): cmap is keyed by the 0-based column position
MapColumnsByIndexImpl(cmap, subTables) ==
  LET tableData == subTables[1] IN
  IF IsUndefined(tableData) THEN Throw("TypeError")
  ELSE MapColumnsOutcome(tableData,
         [i \in 1..Len(tableData.schema.columns) |->
            IF (i - 1) \in DOMAIN cmap THEN ColumnMapInfo(cmap[i - 1]) ELSE NoColumnMapInfo])

RECURSIVE ConcatFrom(_, _, _)
\* The loop of concatImpl from index i on (1-based), res being the table so far.
ConcatFrom(res, subTables, i) ==
  IF i > Len(subTables) THEN Return(res)
  ELSE LET tbl == subTables[i] IN
       IF IsUndefined(tbl) THEN Throw("TypeError")
       ELSE IF ~CompatCheck(res.schema, tbl.schema) THEN Throw("incompatible schema")
       ELSE ConcatFrom(TableRep(res.schema, res.rowData \o tbl.rowData), subTables, i + 1)

ConcatImpl(subTables) ==
  LET tbl == subTables[1] IN
  IF IsUndefined(tbl) THEN Throw("TypeError")
  ELSE ConcatFrom(TableRep(tbl.schema, tbl.rowData), subTables, 2)

(***************************************************************************)
(* JavaScript's comparisons on cells.  Two strings compare by code units;  *)
(* otherwise both sides are converted to numbers (null converts to 0).     *)
(***************************************************************************)
RECURSIVE StringLess(_, _)
StringLess(s1, s2) ==
  IF s2 = <<>> THEN FALSE
  ELSE IF s1 = <<>> THEN TRUE
  ELSE IF Head(s1) # Head(s2) THEN Head(s1) < Head(s2)
  ELSE StringLess(Tail(s1), Tail(s2))

\* ToNumber of a number or of null.
ToNumber(v) == CASE v.k = "number" -> v.n [] v.k = "null" -> 0

\* l < r: two strings are compared as strings; otherwise both sides are
\* converted to numbers, and a string that is not a numeral (every string of
\* the model) converts to NaN, which makes the comparison false.
JsLess(l, r) ==
  IF l.k = "string" /\ r.k = "string" THEN StringLess(l.s, r.s)
  ELSE IF l.k = "string" \/ r.k = "string" THEN FALSE
  ELSE ToNumber(l) < ToNumber(r)

(***************************************************************************)
(* Aggregation accumulators.  One record shape holds the fields of both    *)
(* classes; cls names the class.                                           *)
(***************************************************************************)
NewSumAgg == [cls |-> "SumAgg", sum |-> 0, initial |-> FALSE, str |-> Null]
NewUniqAgg == [cls |-> "UniqAgg", sum |-> 0, initial |-> TRUE, str |-> Null]

\* A SumAgg.mplus that stores the value instead of adding it.
SumMplusOverwrites(acc, x) == IF x # Null THEN [acc EXCEPT !.sum = ToNumber(x)] ELSE acc

\* SumAgg.mplus(x)
SumMplus(acc, x) == IF x # Null THEN [acc EXCEPT !.sum = @ + ToNumber(x)] ELSE acc

\* UniqAgg.mplus(val)
UniqMplus(acc, val) ==
  IF acc.initial /\ val # Null
  THEN [acc EXCEPT !.str = val, !.initial = FALSE]
  ELSE IF acc.str # val THEN [acc EXCEPT !.str = Null] ELSE acc

Mplus(acc, x) == IF acc.cls = "SumAgg" THEN SumMplus(acc, x) ELSE UniqMplus(acc, x)

\* finalize()
Finalize(acc) == IF acc.cls = "SumAgg" THEN Num(acc.sum) ELSE acc.str

\* defaultAggs: the column types that have an accumulator class.
DefaultAggTypes == {"integer", "real", "text"}
DefaultAgg(type) == IF type = "text" THEN NewUniqAgg ELSE NewSumAgg

(***************************************************************************)
(* groupBy.  groupMap is an object whose keys are the serialised key       *)
(* tuples; such a key always starts with "[", so for-in visits the entries *)
(* in insertion order: groupMap is the sequence of its entries in that     *)
(* order.  A groupRow is the key cells followed by the accumulators.       *)
(***************************************************************************)
GroupIndex(groupMap, keyStr) ==
  LET hits == {g \in 1..Len(groupMap) : groupMap[g].keyStr = keyStr}
  IN IF hits = {} THEN 0 ELSE CHOOSE g \in hits : TRUE

\* mkAggAccs(): distinct from the accumulators, threw tells that a column
\* has no aggregator.
MkAggAccs(inSchema, aggCols) ==
  IF \E i \in 1..Len(aggCols) : ColumnType(inSchema, aggCols[i]) \notin DefaultAggTypes
  THEN [threw |-> TRUE, accs |-> <<>>]
  ELSE [threw |-> FALSE,
        accs |-> [i \in 1..Len(aggCols) |-> DefaultAgg(ColumnType(inSchema, aggCols[i]))]]

RECURSIVE GroupRows(_, _, _, _, _, _)
\* The loop over tableData.rowData from row i on; the outcome carries
\* groupMap.
GroupRows(inSchema, aggCols, keyPerm, aggColsPerm, rowData, st) ==
  IF st.i > Len(rowData) \/ st.threw THEN st
  ELSE LET inRow == rowData[st.i]
           keyData == Permute(inRow, keyPerm)
           aggInData == Permute(inRow, aggColsPerm)
           keyStr == JSONStringifyRow(keyData)
           g == GroupIndex(st.groupMap, keyStr)
           made == MkAggAccs(inSchema, aggCols)
       IN IF g = 0 /\ made.threw
          THEN [st EXCEPT !.threw = TRUE]
          ELSE LET groupRow == IF g = 0 THEN [keyData |-> keyData, accs |-> made.accs]
                               ELSE st.groupMap[g].groupRow
                   fed == [groupRow EXCEPT !.accs =
                             [j \in 1..Len(groupRow.accs) |-> Mplus(groupRow.accs[j], aggInData[j])]]
                   entry == [keyStr |-> keyStr, groupRow |-> fed]
               IN GroupRows(inSchema, aggCols, keyPerm, aggColsPerm, rowData,
                            [st EXCEPT !.i = @ + 1,
                                       !.groupMap = IF g = 0 THEN Append(@, entry)
                                                    ELSE [@ EXCEPT ![g] = entry]])

GroupByImpl(cols, aggs, subTables) ==
  LET tableData == subTables[1] IN
  IF IsUndefined(tableData) THEN Throw("TypeError")
  ELSE LET inSchema == tableData.schema
           outSchema == Schema(cols \o aggs, inSchema.columnMetadata)
           keyPerm == CalcProjectionPermutation(inSchema, cols)
           aggColsPerm == CalcProjectionPermutation(inSchema, aggs)
       IN IF keyPerm.threw THEN Throw(keyPerm.error)
          ELSE IF aggColsPerm.threw THEN Throw(aggColsPerm.error)
          ELSE LET st == GroupRows(inSchema, aggs, keyPerm.perm, aggColsPerm.perm,
                                   tableData.rowData,
                                   [i |-> 1, groupMap |-> <<>>, threw |-> FALSE])
               IN IF st.threw THEN Throw("could not find aggregator for column")
                  ELSE Return(TableRep(outSchema,
                         [g \in 1..Len(st.groupMap) |->
                            LET groupRow == st.groupMap[g].groupRow IN
                            groupRow.keyData \o
                              [j \in 1..Len(groupRow.accs) |-> Finalize(groupRow.accs[j])]]))

(***************************************************************************)
(* filter.  A filter expression is a FilterExp (op, opArgs) whose          *)
(* arguments are RelExps (op, lhs, rhs) or FilterExps; a value expression  *)
(* is a ColRef or a ConstVal.  Compilation yields, instead of a closure,   *)
(* the record of what the closure has captured.                            *)
(***************************************************************************)
ColRef(colName) == [expType |-> "ColRef", colName |-> colName, val |-> Null]
ConstVal(val) == [expType |-> "ConstVal", colName |-> "", val |-> val]
RelExp(op, lhs, rhs) == [expType |-> "RelExp", op |-> op, lhs |-> lhs, rhs |-> rhs]
FilterExp(op, opArgs) == [expType |-> "FilterExp", op |-> op, opArgs |-> opArgs]

RelOps == {"EQ", "GT", "GE", "LE", "LT"}

\* relOpFnMap[op](l, r)
RelOpFn(op, l, r) ==
  CASE op = "EQ" -> l = r
    [] op = "GT" -> JsLess(r, l)
    [] op = "GE" -> ~JsLess(l, r)
    [] op = "LE" -> ~JsLess(r, l)
    [] op = "LT" -> JsLess(l, r)

Compiled(fn) == [threw |-> FALSE, error |-> "", fn |-> fn]
CompileError(e) == [threw |-> TRUE, error |-> e, fn |-> <<>>]

\* compileAccessor(vexp)
CompileAccessor(schema, vexp) ==
  IF vexp.expType = "ColRef"
  THEN LET idx == ColumnIndex(schema, vexp.colName) IN
       IF idx = 0
       THEN CompileError("compiling filter expression: Unknown column identifier")
       ELSE Compiled([kind |-> "col", idx |-> idx, val |-> Null])
  ELSE Compiled([kind |-> "const", idx |-> 0, val |-> vexp.val])

\* compileRelOp(relop)
CompileRelOp(schema, relop) ==
  LET lhsef == CompileAccessor(schema, relop.lhs)
      rhsef == CompileAccessor(schema, relop.rhs)
  IN IF lhsef.threw THEN lhsef
     ELSE IF rhsef.threw THEN rhsef
     ELSE Compiled([kind |-> "rf", lhsef |-> lhsef.fn, rhsef |-> rhsef.fn, cmpFn |-> relop.op])

RECURSIVE CompileExp(_, _), CompileSubExp(_, _), CompileArgs(_, _, _, _)
\* compileSubExp(se)
CompileSubExp(schema, se) ==
  IF se.expType = "RelExp" THEN CompileRelOp(schema, se)
  ELSE IF se.expType = "FilterExp" THEN CompileExp(schema, se)
  ELSE CompileError("error compile simple expression: unknown expr type")

\* argExps.map(compileSubExp), from argument i on
CompileArgs(schema, argExps, i, argCFs) ==
  IF i > Len(argExps) THEN Compiled(argCFs)
  ELSE LET c == CompileSubExp(schema, argExps[i]) IN
       IF c.threw THEN c
       ELSE CompileArgs(schema, argExps, i + 1, Append(argCFs, c.fn))

\* compileExp(exp): compileAndExp for AND, compileOrExp (which throws) otherwise
CompileExp(schema, exp) ==
  IF exp.op = "AND"
  THEN LET c == CompileArgs(schema, exp.opArgs, 1, <<>>) IN
       IF c.threw THEN c ELSE Compiled([kind |-> "cf", argCFs |-> c.fn])
  ELSE CompileError("OR expressions - not yet implemented")

\* The row accessors built by compileAccessor
RunAccessor(ef, row) == IF ef.kind = "col" THEN row[ef.idx] ELSE ef.val

\* rf(row): the comparison, and itself as the one predicate evaluated
RunRelOp(rf, row) ==
  [ret |-> RelOpFn(rf.cmpFn, RunAccessor(rf.lhsef, row), RunAccessor(rf.rhsef, row)),
   evald |-> <<rf>>]

RECURSIVE RunPred(_, _), AndLoopReturningOnTrue(_, _, _, _), AndLoop(_, _, _, _)
\* An AND loop that returns at the first true argument.
AndLoopReturningOnTrue(argCFs, row, i, evald) ==
  IF i > Len(argCFs) THEN [ret |-> FALSE, evald |-> evald]
  ELSE LET r == RunPred(argCFs[i], row) IN
       IF r.ret THEN [ret |-> TRUE, evald |-> evald \o r.evald]
       ELSE AndLoopReturningOnTrue(argCFs, row, i + 1, evald \o r.evald)

\* cf(row) of compileAndExp, from argument i on; evald lists the comparisons
\* evaluated so far, in order
AndLoop(argCFs, row, i, evald) ==
  IF i > Len(argCFs) THEN [ret |-> TRUE, evald |-> evald]
  ELSE LET r == RunPred(argCFs[i], row) IN
       IF ~r.ret THEN [ret |-> FALSE, evald |-> evald \o r.evald]
       ELSE AndLoop(argCFs, row, i + 1, evald \o r.evald)

\* A compiled predicate applied to a row
RunPred(fn, row) ==
  IF fn.kind = "rf" THEN RunRelOp(fn, row) ELSE AndLoop(fn.argCFs, row, 1, <<>>)

RECURSIVE FilterRows(_, _, _)
\* The loop of filterImpl over rowData from row i on: the rows kept
FilterRows(fn, rowData, i) ==
  IF i > Len(rowData) THEN <<>>
  ELSE IF RunPred(fn, rowData[i]).ret
       THEN <<rowData[i]>> \o FilterRows(fn, rowData, i + 1)
       ELSE FilterRows(fn, rowData, i + 1)

FilterImpl(fexp, subTables) ==
  LET tableData == subTables[1] IN
  IF IsUndefined(tableData) THEN Throw("TypeError")
  ELSE LET ce == CompileExp(tableData.schema, fexp) IN
       IF ce.threw THEN Throw(ce.error)
       ELSE Return(TableRep(tableData.schema, FilterRows(ce.fn, tableData.rowData, 1)))

(***************************************************************************)
(* sort.  The comparator chain built by compileSortFunc is the sequence of *)
(* what each mkRowCompFn closure has captured: the column position, the    *)
(* column type and whether the value comparison has its arguments swapped; *)
(* the innermost function, which returns 0, is the empty sequence.         *)
(***************************************************************************)
\* strcmp and numcmp, chosen by column type
ValCmp(colType, v1, v2) ==
  CASE colType = "text" -> (IF JsLess(v1, v2) THEN -1 ELSE IF JsLess(v2, v1) THEN 1 ELSE 0)
    [] colType \in {"integer", "real"} -> ToNumber(v1) - ToNumber(v2)

\* mkRowCompFn(valCmpFn, idx, nextFunc)
MkRowCompFn(colType, reversed, idx, nextFunc) ==
  <<[idx |-> idx, colType |-> colType, reversed |-> reversed]>> \o nextFunc

RECURSIVE SortFuncFrom(_, _, _, _)
\* The loop of compileSortFunc from key i down to the first
SortFuncFrom(schema, keys, i, rowCmpFn) ==
  IF i < 1 THEN rowCmpFn
  ELSE SortFuncFrom(schema, keys, i - 1,
         MkRowCompFn(ColumnType(schema, keys[i][1]), ~keys[i][2],
                     ColumnIndex(schema, keys[i][1]), rowCmpFn))

\* compileSortFunc(schema, keys)
CompileSortFunc(schema, keys) == SortFuncFrom(schema, keys, Len(keys), <<>>)

RECURSIVE RowCmp(_, _, _)
\* rcf(rowa, rowb)
RowCmp(rowCmpFn, rowa, rowb) ==
  IF rowCmpFn = <<>> THEN 0
  ELSE LET f == rowCmpFn[1]
           va == rowa[f.idx]
           vb == rowb[f.idx]
           ret == IF f.reversed THEN ValCmp(f.colType, vb, va) ELSE ValCmp(f.colType, va, vb)
       IN IF ret = 0 THEN RowCmp(Tail(rowCmpFn), rowa, rowb) ELSE ret

\* Whether comparefn is a consistent comparison function for the elements
\* (ECMAScript, Array.prototype.sort): a =CF b is reflexive, symmetric and
\* transitive, a <CF b is the converse of b >CF a, and both are transitive.
ConsistentComparator(rows, rowCmpFn) ==
  LET S == {rows[i] : i \in 1..Len(rows)}
      c(a, b) == RowCmp(rowCmpFn, a, b)
  IN /\ \A a \in S : c(a, a) = 0
     /\ \A a, b \in S : /\ c(a, b) = 0 => c(b, a) = 0
                        /\ c(a, b) < 0 <=> c(b, a) > 0
     /\ \A a, b, d \in S : /\ c(a, b) = 0 /\ c(b, d) = 0 => c(a, d) = 0
                           /\ c(a, b) < 0 /\ c(b, d) < 0 => c(a, d) < 0
                           /\ c(a, b) > 0 /\ c(b, d) > 0 => c(a, d) > 0

RECURSIVE InsertRow(_, _, _), StableSort(_, _)
\* row placed into the sorted sequence after every element it does not precede
InsertRow(rowCmpFn, sorted, row) ==
  IF sorted = <<>> THEN <<row>>
  ELSE IF RowCmp(rowCmpFn, row, sorted[1]) < 0 THEN <<row>> \o sorted
  ELSE <<sorted[1]>> \o InsertRow(rowCmpFn, Tail(sorted), row)

\* The ascending order by comparefn in which equal elements keep their order
StableSort(rows, rowCmpFn) ==
  IF rows = <<>> THEN <<>>
  ELSE InsertRow(rowCmpFn, StableSort(SubSeq(rows, 1, Len(rows) - 1), rowCmpFn), rows[Len(rows)])

\* The orders in which the elements of rows can be arranged
Arrangements(rows) ==
  LET n == Len(rows) IN
  {[i \in 1..n |-> rows[p[i]]] :
     p \in {q \in [1..n -> 1..n] : \A i, j \in 1..n : q[i] = q[j] => i = j}}

\* Array.prototype.sort(comparefn), the orders the array can be left in: the
\* stable ascending order (ECMAScript 2019) when comparefn is a consistent
\* comparison function for the elements; otherwise the order is
\* implementation-defined.
ArraySort(rows, rowCmpFn) ==
  IF ConsistentComparator(rows, rowCmpFn) THEN {StableSort(rows, rowCmpFn)}
  ELSE Arrangements(rows)

\* sf(subTables) of sortImpl: the outcomes it can have
SortImpl(sortKeys, subTables) ==
  LET tableData == subTables[1] IN
  IF IsUndefined(tableData) THEN {Throw("TypeError")}
  ELSE LET rsf == CompileSortFunc(tableData.schema, sortKeys) IN
       {Return(TableRep(tableData.schema, outRows)) :
          outRows \in ArraySort(tableData.rowData, rsf)}

(***************************************************************************)
(* Query expressions (QueryExp of reltab.js): an operator tag, the literal *)
(* arguments valArgs and the table-valued children tableArgs.  valArgs is  *)
(* the source's argument array with one named slot per argument position   *)
(* of the operators; an operator reads its own slots.                      *)
(***************************************************************************)
NoMetadata == [type |-> "", displayName |-> ""]
NoArgs == [name |-> "", cols |-> <<>>, aggs |-> <<>>, fexp |-> FilterExp("AND", <<>>),
           cmap |-> <<>>, colId |-> "", columnMetadata |-> NoMetadata, ev |-> NoExtendVal,
           sortKeys |-> <<>>]

TableQuery(name) ==
  [operator |-> "table", valArgs |-> [NoArgs EXCEPT !.name = name], tableArgs |-> <<>>]
ProjectQuery(cols, q) ==
  [operator |-> "project", valArgs |-> [NoArgs EXCEPT !.cols = cols], tableArgs |-> <<q>>]
ExtendQuery(colId, columnMetadata, ev, q) ==
  [operator |-> "extend",
   valArgs |-> [NoArgs EXCEPT !.colId = colId, !.columnMetadata = columnMetadata, !.ev = ev],
   tableArgs |-> <<q>>]
GroupByQuery(cols, aggs, q) ==
  [operator |-> "groupBy", valArgs |-> [NoArgs EXCEPT !.cols = cols, !.aggs = aggs],
   tableArgs |-> <<q>>]
FilterQuery(fexp, q) ==
  [operator |-> "filter", valArgs |-> [NoArgs EXCEPT !.fexp = fexp], tableArgs |-> <<q>>]
MapColumnsQuery(cmap, q) ==
  [operator |-> "mapColumns", valArgs |-> [NoArgs EXCEPT !.cmap = cmap], tableArgs |-> <<q>>]
MapColumnsByIndexQuery(cmap, q) ==
  [operator |-> "mapColumnsByIndex", valArgs |-> [NoArgs EXCEPT !.cmap = cmap],
   tableArgs |-> <<q>>]
SortQuery(sortKeys, q) ==
  [operator |-> "sort", valArgs |-> [NoArgs EXCEPT !.sortKeys = sortKeys], tableArgs |-> <<q>>]
ConcatQuery(qa, qb) == [operator |-> "concat", valArgs |-> NoArgs, tableArgs |-> <<qa, qb>>]
\* A node whose operator tag names no implementation.
UnknownQuery(children) == [operator |-> "bogus", valArgs |-> NoArgs, tableArgs |-> children]

\* No query yet.
NoQuery == [operator |-> "", valArgs |-> NoArgs, tableArgs |-> <<>>]

\* The tables the table source serves (the JSON that fetch yields).
TableNames == {"t1", "t2"}
IntegerColumn == [type |-> "integer", displayName |-> "n"]
TextColumn == [type |-> "text", displayName |-> "s"]
JsonData(tableName) ==
  IF tableName = "t1"
  THEN TableRep(Schema(<<"a">>, [c \in {"a"} |-> IntegerColumn]), <<<<Num(1)>>, <<Num(2)>>>>)
  ELSE TableRep(Schema(<<"b">>, [c \in {"b"} |-> TextColumn]), <<<<Str(<<1>>)>>>>)

RECURSIVE Queries(_)
\* The query trees of depth at most d.
Queries(d) ==
  IF d = 0
  THEN {TableQuery(name) : name \in TableNames} \cup {UnknownQuery(<<>>)}
  ELSE LET sub == Queries(d - 1) IN
       sub
       \cup {ProjectQuery(<<"a">>, q) : q \in sub}
       \cup {ExtendQuery("c", IntegerColumn, Generator(f), q) : f \in {"one", "two"}, q \in sub}
       \cup {UnknownQuery(<<q>>) : q \in sub}
       \cup {ConcatQuery(qa, qb) : qa \in sub, qb \in sub}

(***************************************************************************)
(* The state.                                                              *)
(***************************************************************************)
VARIABLES
  tableCache,  \* tableCache: table name -> the promise stored for it
  fetches,     \* per table name: the fetch calls issued and the state of the last
  heap,        \* every promise created so far -> its state, value and reason
  settled,     \* the promises that have settled, in the order they did
  query,       \* the query handed to localEvalQuery
  invMap,      \* CSEEvaluator.invMap
  valExps,     \* CSEEvaluator.valExps
  promises,    \* CSEEvaluator.promises
  numbered,    \* one entry per node visited by buildCSEMap, in visit order
  started,     \* value number -> times evalTable took its "no entry yet" branch
  calls,       \* value number -> the argument lists its operator was run on
  requests,    \* the evalTable calls made from outside, with what each returned
  call,        \* an operator applied on its own: the node and its input tables
  tres,        \* the outcome of that application
  acc,         \* an aggregation accumulator
  fed,         \* the values passed to its mplus so far
  finalized,   \* what its finalize returned
  objects,     \* the arrays and objects that tables are made of, by address
  tables,      \* the tables built on them: address, and contents when built
  refs         \* the requests made to the table source, with what each returned

evalVars == <<tableCache, fetches, heap, settled, query, invMap, valExps, promises,
              numbered, started, calls, requests>>
opVars == <<call, tres>>
aggVars == <<acc, fed, finalized>>
objVars == <<objects, tables>>
srcVars == <<refs>>
vars == <<evalVars, opVars, aggVars, objVars, srcVars>>

(***************************************************************************)
(* Promises.                                                               *)
(***************************************************************************)
NoPromise == [kind |-> "none", name |-> "", num |-> 0]
\* The promise loadTable(name) returns.
LoadPromise(name) == [kind |-> "load", name |-> name, num |-> 0]
\* The promise evalTable builds for interior value number n.
NodePromise(n) == [kind |-> "node", name |-> "", num |-> n]

Pending == [state |-> "pending", value |-> Undefined, reason |-> ""]
Fulfilled(v) == [state |-> "fulfilled", value |-> v, reason |-> ""]
Rejected(r) == [state |-> "rejected", value |-> Undefined, reason |-> r]

\* The position of promise p in the order of settlement.
SettleIndex(order, p) == CHOOSE i \in 1..Len(order) : order[i] = p

\* A Promise.all that hands over the values in the order they arrived.
PromiseAllInArrivalOrder(h, order, ps) ==
  LET byArrival(i) == CHOOSE j \in 1..Len(ps) :
                        Cardinality({m \in 1..Len(ps) :
                           \/ SettleIndex(order, ps[m]) < SettleIndex(order, ps[j])
                           \/ SettleIndex(order, ps[m]) = SettleIndex(order, ps[j]) /\ m <= j}) = i
  IN
  IF \E i \in 1..Len(ps) : h[ps[i]].state = "rejected"
  THEN [state |-> "rejected", values |-> <<>>, reason |-> "rejected"]
  ELSE IF \A i \in 1..Len(ps) : h[ps[i]].state = "fulfilled"
  THEN [state |-> "fulfilled", values |-> [i \in 1..Len(ps) |-> h[ps[byArrival(i)]].value],
        reason |-> ""]
  ELSE [state |-> "pending", values |-> <<>>, reason |-> ""]

\* Promise.all(ps): fulfilled with the values in the order of ps once every
\* element is fulfilled, rejected with the reason of the first to reject.
PromiseAll(h, order, ps) ==
  LET rejected == {i \in 1..Len(ps) : h[ps[i]].state = "rejected"} IN
  IF rejected # {}
  THEN LET first == CHOOSE i \in rejected :
                      \A j \in rejected : SettleIndex(order, ps[i]) <= SettleIndex(order, ps[j])
       IN [state |-> "rejected", values |-> <<>>, reason |-> h[ps[first]].reason]
  ELSE IF \A i \in 1..Len(ps) : h[ps[i]].state = "fulfilled"
  THEN [state |-> "fulfilled", values |-> [i \in 1..Len(ps) |-> h[ps[i]].value], reason |-> ""]
  ELSE [state |-> "pending", values |-> <<>>, reason |-> ""]

(***************************************************************************)
(* The table source.                                                       *)
(***************************************************************************)
\* loadTable's handlers on the fetch promise: the first builds the table,
\* the second logs the error and returns nothing.
LoadTableThen(tableName, ok) ==
  IF ok THEN Fulfilled(JsonData(tableName)) ELSE Fulfilled(Undefined)

\* loadTable(tableName): issues the fetch; the returned promise is pending.
LoadTable(st, tableName) ==
  [st EXCEPT !.fetches[tableName] = [issued |-> @.issued + 1, state |-> "pending"],
             !.heap = (LoadPromise(tableName) :> Pending) @@ @,
             !.ret = LoadPromise(tableName)]

\* A table source that loads again once the load of the name has failed.
TableRefImplRetrying(st, tableName) ==
  LET tcp == st.tableCache[tableName] IN
  IF tcp = NoPromise \/ st.fetches[tableName].state = "failed"
  THEN LET st1 == LoadTable(st, tableName)
       IN [st1 EXCEPT !.tableCache[tableName] = st1.ret]
  ELSE [st EXCEPT !.ret = tcp]

\* tableRefImpl(tableName)
TableRefImpl(st, tableName) ==
  LET tcp == st.tableCache[tableName] IN
  IF tcp = NoPromise
  THEN LET st1 == LoadTable(st, tableName)
       IN [st1 EXCEPT !.tableCache[tableName] = st1.ret]
  ELSE [st EXCEPT !.ret = tcp]

(***************************************************************************)
(* Evaluation of a node from its tables.                                   *)
(***************************************************************************)
BaseOperators == {"table"}
SimpleOperators ==
  {"project", "groupBy", "filter", "mapColumns", "mapColumnsByIndex", "extend", "concat", "sort"}

\* evalBaseExp(exp), called for value number tableId
EvalBaseExp(st, exp, tableId) ==
  IF exp.operator \notin BaseOperators
  THEN [st EXCEPT !.threw = TRUE]
  ELSE TableRefImpl([st EXCEPT !.calls[tableId] = Append(@, <<>>)], exp.valArgs.name)

\* evalInteriorExp(exp, subTables): the outcomes the call can have, one
\* except where sort leaves the order to the engine
EvalInteriorExp(exp, subTables) ==
  IF exp.operator \notin SimpleOperators
  THEN {Throw("reltab query evaluation: unsupported operator")}
  ELSE CASE exp.operator = "project" -> {ProjectImpl(exp.valArgs.cols, subTables)}
         [] exp.operator = "groupBy" ->
              {GroupByImpl(exp.valArgs.cols, exp.valArgs.aggs, subTables)}
         [] exp.operator = "filter" -> {FilterImpl(exp.valArgs.fexp, subTables)}
         [] exp.operator = "mapColumns" -> {MapColumnsImpl(exp.valArgs.cmap, subTables)}
         [] exp.operator = "mapColumnsByIndex" ->
              {MapColumnsByIndexImpl(exp.valArgs.cmap, subTables)}
         [] exp.operator = "sort" -> SortImpl(exp.valArgs.sortKeys, subTables)
         [] exp.operator = "extend" ->
              {ExtendImpl(exp.valArgs.colId, exp.valArgs.columnMetadata, exp.valArgs.ev,
                          subTables)}
         [] exp.operator = "concat" -> {ConcatImpl(subTables)}

(***************************************************************************)
(* CSEEvaluator.                                                           *)
(***************************************************************************)
NumberedExp(exp, tableNums) == [exp |-> exp, tableNums |-> tableNums]

\* expKey of buildCSEMap: the operator, the children's value numbers and the
\* serialised literal arguments, which the source joins into one string.
ExpKey(operator, tableNums, valArgs) ==
  [operator |-> operator, tableNums |-> tableNums, valArgs |-> JSONStringifyArgs(valArgs)]

RECURSIVE BuildCSEMap(_, _), BuildTableArgs(_, _, _, _)
\* query.tableArgs.map(e => this.buildCSEMap(e)), from child i on
BuildTableArgs(cse, tableArgs, i, tableNums) ==
  IF i > Len(tableArgs) THEN [cse EXCEPT !.tableNums = tableNums]
  ELSE LET c == BuildCSEMap(cse, tableArgs[i])
       IN BuildTableArgs(c, tableArgs, i + 1, Append(tableNums, c.valNum))

\* buildCSEMap(query) on the evaluator state cse; the value number is in valNum.
BuildCSEMap(cse, q) ==
  LET c == BuildTableArgs(cse, q.tableArgs, 1, <<>>)
      tableNums == c.tableNums
      expKey == ExpKey(q.operator, tableNums, q.valArgs)
      hit == expKey \in DOMAIN c.invMap
      valNum == IF hit THEN c.invMap[expKey] ELSE Len(c.valExps)
  IN [invMap |-> IF hit THEN c.invMap ELSE (expKey :> valNum) @@ c.invMap,
      valExps |-> IF hit THEN c.valExps ELSE Append(c.valExps, NumberedExp(q, tableNums)),
      numbered |-> Append(c.numbered, [exp |-> q, tableNums |-> tableNums, valNum |-> valNum]),
      tableNums |-> <<>>,
      valNum |-> valNum]

\* A lookup that never finds the stored promise.
HasEntryNever(proms, tableId) == FALSE

\* typeof this.promises[tableId] !== 'undefined'
HasEntry(proms, tableId) == tableId \in DOMAIN proms

RECURSIVE EvalTable(_, _, _), EvalSubTables(_, _, _, _)
\* numExp.tableNums.map(tid => this.evalTable(tid)), from child i on; an
\* exception thrown by a call ends the map.
EvalSubTables(exps, st, tableNums, i) ==
  IF i > Len(tableNums) \/ st.threw THEN st
  ELSE EvalSubTables(exps, EvalTable(exps, st, tableNums[i]), tableNums, i + 1)

\* evalTable(tableId): st.ret is the promise returned, st.threw tells that
\* the call ended with an exception instead.
EvalTable(exps, st, tableId) ==
  IF HasEntry(st.promises, tableId)
  THEN [st EXCEPT !.ret = st.promises[tableId]]
  ELSE LET numExp == exps[tableId + 1]
           st0 == [st EXCEPT !.started[tableId] = @ + 1]
       IN IF Len(numExp.tableNums) > 0
          THEN LET st1 == EvalSubTables(exps, st0, numExp.tableNums, 1)
                   resp == NodePromise(tableId)
               IN IF st1.threw THEN st1
                  ELSE [st1 EXCEPT !.heap = (resp :> Pending) @@ @,
                                   !.promises = (tableId :> resp) @@ @,
                                   !.ret = resp]
          ELSE LET st1 == EvalBaseExp(st0, numExp.exp, tableId)
               IN IF st1.threw THEN st1
                  ELSE [st1 EXCEPT !.promises = (tableId :> st1.ret) @@ @]

\* The part of the state that evalTable reads and writes.
EvalState ==
  [tableCache |-> tableCache, fetches |-> fetches, heap |-> heap, promises |-> promises,
   started |-> started, calls |-> calls, threw |-> FALSE, ret |-> NoPromise]

\* The state after a call of evalTable that ended in st.
Evaluated(st, tableId) ==
  /\ tableCache' = st.tableCache
  /\ fetches' = st.fetches
  /\ heap' = st.heap
  /\ promises' = st.promises
  /\ started' = st.started
  /\ calls' = st.calls
  /\ requests' = Append(requests, [tableId |-> tableId, threw |-> st.threw,
                                    resp |-> IF st.threw THEN NoPromise ELSE st.ret])

(***************************************************************************)
(* Actions.                                                                *)
(***************************************************************************)
ValNums == 0..(Len(valExps) - 1)

\* No operator applied on its own, no accumulator in use.
NotRun == [threw |-> FALSE, error |-> "not run", tres |-> Undefined]
NotFinalized == [k |-> "none", n |-> 0, s |-> <<>>]
OpIdle == call = [exp |-> NoQuery, subTables |-> <<>>] /\ tres = NotRun
AggIdle == acc = NewSumAgg /\ fed = <<>> /\ finalized = NotFinalized
ObjIdle == objects = <<>> /\ tables = <<>>
SrcIdle == refs = <<>>

InitEvaluator ==
  /\ tableCache = [name \in TableNames |-> NoPromise]
  /\ fetches = [name \in TableNames |-> [issued |-> 0, state |-> "none"]]
  /\ heap = <<>>
  /\ settled = <<>>
  /\ query = NoQuery
  /\ invMap = <<>>
  /\ valExps = <<>>
  /\ promises = <<>>
  /\ numbered = <<>>
  /\ started = <<>>
  /\ calls = <<>>
  /\ requests = <<>>

Init == InitEvaluator /\ OpIdle /\ AggIdle /\ ObjIdle /\ SrcIdle

\* localEvalQuery(q): a new evaluator, buildCSEMap, evalTable of the root.
LocalEvalQuery(q) ==
  /\ requests = <<>>
  /\ LET cse == BuildCSEMap([invMap |-> <<>>, valExps |-> <<>>, numbered |-> <<>>,
                             tableNums |-> <<>>, valNum |-> 0], q)
         nums == 0..(Len(cse.valExps) - 1)
         st == EvalTable(cse.valExps,
                         [EvalState EXCEPT !.promises = <<>>,
                                           !.started = [n \in nums |-> 0],
                                           !.calls = [n \in nums |-> <<>>]],
                         cse.valNum)
     IN /\ query' = q
        /\ invMap' = cse.invMap
        /\ valExps' = cse.valExps
        /\ numbered' = cse.numbered
        /\ Evaluated(st, cse.valNum)
  /\ UNCHANGED <<settled, opVars, aggVars, objVars, srcVars>>

\* A further evalTable(tableId) on the same evaluator.
EvalTableRequest(tableId) ==
  /\ requests # <<>>
  /\ Len(requests) <= MaxRequests
  /\ tableId \in ValNums
  /\ Evaluated(EvalTable(valExps, EvalState, tableId), tableId)
  /\ UNCHANGED <<settled, query, invMap, valExps, numbered, opVars, aggVars, objVars, srcVars>>

\* The fetch of tableName ends, well or not, and loadTable's handler runs.
FetchDone(tableName, ok) ==
  /\ fetches[tableName].state = "pending"
  /\ fetches' = [fetches EXCEPT ![tableName].state = IF ok THEN "loaded" ELSE "failed"]
  /\ heap' = [heap EXCEPT ![LoadPromise(tableName)] = LoadTableThen(tableName, ok)]
  /\ settled' = Append(settled, LoadPromise(tableName))
  /\ UNCHANGED <<tableCache, query, invMap, valExps, promises, numbered, started, calls,
                 requests, opVars, aggVars, objVars, srcVars>>

\* The promises of the children of interior value number n, in child order.
SubTables(n) == [i \in 1..Len(valExps[n + 1].tableNums) |-> promises[valExps[n + 1].tableNums[i]]]

IsPendingNode(n) ==
  /\ n \in DOMAIN promises
  /\ promises[n] = NodePromise(n)
  /\ heap[promises[n]].state = "pending"

\* Promise.all(subTables) is fulfilled: the then-callback runs
\* evalInteriorExp on the tables, and its outcome settles the promise of n.
InteriorThen(n) ==
  /\ IsPendingNode(n)
  /\ LET all == PromiseAll(heap, settled, SubTables(n)) IN
     /\ all.state = "fulfilled"
     /\ \E res \in EvalInteriorExp(valExps[n + 1].exp, all.values) :
          heap' = [heap EXCEPT ![promises[n]] =
                     IF res.threw THEN Rejected(res.error) ELSE Fulfilled(res.tres)]
     /\ calls' = [calls EXCEPT ![n] = Append(@, all.values)]
  /\ settled' = Append(settled, promises[n])
  /\ UNCHANGED <<tableCache, fetches, query, invMap, valExps, promises, numbered, started,
                 requests, opVars, aggVars, objVars, srcVars>>

\* Promise.all(subTables) is rejected: the promise of n is rejected with the
\* same reason and the callback never runs.
InteriorRejected(n) ==
  /\ IsPendingNode(n)
  /\ LET all == PromiseAll(heap, settled, SubTables(n)) IN
     /\ all.state = "rejected"
     /\ heap' = [heap EXCEPT ![promises[n]] = Rejected(all.reason)]
  /\ settled' = Append(settled, promises[n])
  /\ UNCHANGED <<tableCache, fetches, query, invMap, valExps, promises, numbered, started,
                 calls, requests, opVars, aggVars, objVars, srcVars>>

Next ==
  \/ \E q \in Queries(MaxDepth) : LocalEvalQuery(q)
  \/ \E n \in ValNums : EvalTableRequest(n)
  \/ \E name \in TableNames, ok \in BOOLEAN : FetchDone(name, ok)
  \/ \E n \in ValNums : InteriorThen(n)
  \/ \E n \in ValNums : InteriorRejected(n)

Spec == Init /\ [][Next]_vars

(***************************************************************************)
(* An accumulator on its own: a fresh SumAgg or UniqAgg is fed values with *)
(* mplus and then finalized, as groupByImpl does for every group.          *)
(***************************************************************************)
MaxFed == 4

Texts == {Str(<<1>>), Str(<<2>>)}
AggInputs(a) == IF a.cls = "UniqAgg" THEN Texts \cup {Null} ELSE {Num(1), Num(2), Null}

InitAgg ==
  /\ InitEvaluator
  /\ OpIdle
  /\ ObjIdle
  /\ SrcIdle
  /\ acc \in {NewSumAgg, NewUniqAgg}
  /\ fed = <<>>
  /\ finalized = NotFinalized

\* acc.mplus(x)
AccMplus(x) ==
  /\ finalized = NotFinalized
  /\ Len(fed) < MaxFed
  /\ acc' = Mplus(acc, x)
  /\ fed' = Append(fed, x)
  /\ UNCHANGED <<finalized, evalVars, opVars, objVars, srcVars>>

\* acc.finalize()
AccFinalize ==
  /\ finalized = NotFinalized
  /\ finalized' = Finalize(acc)
  /\ UNCHANGED <<acc, fed, evalVars, opVars, objVars, srcVars>>

NextAgg ==
  \/ \E x \in AggInputs(acc) : AccMplus(x)
  \/ AccFinalize

SpecAgg == InitAgg /\ [][NextAgg]_vars

(***************************************************************************)
(* An operator on its own: evalInteriorExp applied to a node and to input  *)
(* tables drawn from small sets.                                           *)
(***************************************************************************)
MaxRows == 3
MaxOpArgs == 2
MaxKeys == 2

SeqsUpTo(S, n) == UNION {[1..k -> S] : k \in 0..n}

\* The then-callback of evalTable on its own
ApplyOperator ==
  /\ call.exp # NoQuery
  /\ tres = NotRun
  /\ \E res \in EvalInteriorExp(call.exp, call.subTables) : tres' = res
  /\ UNCHANGED <<call, evalVars, aggVars, objVars, srcVars>>

NextOp == ApplyOperator

\* groupBy: key columns k (text) and j (integer), value column v.
GroupBySchema ==
  Schema(<<"k", "j", "v">>,
         [c \in {"k", "j", "v"} |-> IF c = "k" THEN TextColumn ELSE IntegerColumn])
GroupByRows == {<<k, j, v>> : k \in Texts, j \in {Num(1), Null}, v \in {Null, Num(1), Num(2)}}
KeyLists == {<<>>, <<"k">>, <<"k", "j">>, <<"z">>}
AggLists == {<<"v">>, <<"k", "v">>, <<"v", "j">>}

InitGroupBy ==
  /\ InitEvaluator
  /\ AggIdle
  /\ ObjIdle
  /\ SrcIdle
  /\ tres = NotRun
  /\ call \in {[exp |-> GroupByQuery(cols, aggs, TableQuery("t1")),
                subTables |-> <<TableRep(GroupBySchema, rowData)>>] :
                 cols \in KeyLists, aggs \in AggLists,
                 rowData \in SeqsUpTo(GroupByRows, MaxRows)}

SpecGroupBy == InitGroupBy /\ [][NextOp]_vars

\* filter: integer columns a and b.
FilterSchema == Schema(<<"a", "b">>, [c \in {"a", "b"} |-> IntegerColumn])
FilterRows3 == {<<Num(a), Num(2)>> : a \in 1..3}
Comparisons ==
  {RelExp(op, ColRef("a"), ConstVal(Num(2))) : op \in RelOps}
  \cup {RelExp("EQ", ColRef("b"), ColRef("a")), RelExp("GT", ConstVal(Num(3)), ColRef("a"))}
NestedAnds ==
  {FilterExp("AND", args) :
     args \in SeqsUpTo({RelExp("EQ", ColRef("a"), ConstVal(Num(2))),
                        RelExp("GE", ColRef("a"), ConstVal(Num(2))),
                        RelExp("GT", ConstVal(Num(3)), ColRef("a"))}, MaxOpArgs)}
SubExps ==
  Comparisons \cup NestedAnds
  \cup {RelExp("EQ", ColRef("z"), ConstVal(Num(2))), FilterExp("OR", <<>>)}
FilterExps ==
  {FilterExp("AND", args) : args \in SeqsUpTo(SubExps, MaxOpArgs)}
  \cup {FilterExp("OR", <<e>>) : e \in Comparisons}

InitFilter ==
  /\ InitEvaluator
  /\ AggIdle
  /\ ObjIdle
  /\ SrcIdle
  /\ tres = NotRun
  /\ call \in {[exp |-> FilterQuery(fexp, TableQuery("t1")),
                subTables |-> <<TableRep(FilterSchema, rowData)>>] :
                 fexp \in FilterExps, rowData \in SeqsUpTo(FilterRows3, MaxRows)}

SpecFilter == InitFilter /\ [][NextOp]_vars

\* sort: a text column s, an integer column n, and the row's position in the
\* input as its third cell.
SortSchema ==
  Schema(<<"s", "n", "id">>,
         [c \in {"s", "n", "id"} |-> IF c = "s" THEN TextColumn ELSE IntegerColumn])
SortCells == {<<s, Num(n)>> : s \in Texts \cup {Str(<<1, 2>>), Null}, n \in 1..2}
SortKeys == {<<c, asc>> : c \in {"s", "n"}, asc \in BOOLEAN}

InitSort ==
  /\ InitEvaluator
  /\ AggIdle
  /\ ObjIdle
  /\ SrcIdle
  /\ tres = NotRun
  /\ call \in {[exp |-> SortQuery(keys, TableQuery("t1")),
                subTables |-> <<TableRep(SortSchema,
                                  [i \in 1..Len(cells) |-> Append(cells[i], Num(i))])>>] :
                 keys \in SeqsUpTo(SortKeys, MaxKeys), cells \in SeqsUpTo(SortCells, MaxRows)}

SpecSort == InitSort /\ [][NextOp]_vars

\* extend: a table with integer column a, with or without a column c, whose
\* schema may hold a metadata entry for c left by an earlier projection.
ExtendSchemas ==
  {Schema(<<"a">>, [c \in {"a"} |-> IntegerColumn]),
   Schema(<<"a">>, [c \in {"a", "c"} |-> IF c = "a" THEN IntegerColumn ELSE TextColumn]),
   Schema(<<"a", "c">>, [c \in {"a", "c"} |-> IF c = "a" THEN IntegerColumn ELSE TextColumn])}
ExtendRows(schema) ==
  IF Len(schema.columns) = 1 THEN {<<Num(a)>> : a \in 1..2}
  ELSE {<<Num(a), Str(<<1>>)>> : a \in 1..2}
ExtendVals == {Generator("one"), Generator("two"), Constant(Num(3)), Constant(Null)}

InitExtend ==
  /\ InitEvaluator
  /\ AggIdle
  /\ ObjIdle
  /\ SrcIdle
  /\ tres = NotRun
  /\ \E schema \in ExtendSchemas :
       call \in {[exp |-> ExtendQuery(colId, columnMetadata, ev, TableQuery("t1")),
                  subTables |-> <<TableRep(schema, rowData)>>] :
                   colId \in {"c", "d"}, columnMetadata \in {IntegerColumn, TextColumn},
                   ev \in ExtendVals, rowData \in SeqsUpTo(ExtendRows(schema), MaxRows)}

SpecExtend == InitExtend /\ [][NextOp]_vars

(***************************************************************************)
(* Tables as JavaScript holds them: arrays and objects with an identity,   *)
(* referred to by address.  A store h is the sequence of the objects made  *)
(* so far and an address is a position in it.  A TableRep is an object with *)
(* the addresses of its schema and of its rowData array, a Schema an object *)
(* with the addresses of its columns array and of its columnMetadata       *)
(* object, rowData an array of row addresses, a row an array of cells,     *)
(* columnMetadata an object from column identifier to the address of the   *)
(* column's info object.  The constructors of reltab.js keep the           *)
(* references they are given.  Each transform below allocates what the     *)
(* source allocates, shares what it shares and writes where it writes.     *)
(***************************************************************************)
ArrayObj(elems) == [kind |-> "array", elems |-> elems, props |-> <<>>]
PlainObj(props) == [kind |-> "object", elems |-> <<>>, props |-> props]

\* A new object: the store with it, and its address.
New(h, obj) == [h |-> Append(h, obj), ref |-> Len(h) + 1]
\* One new array per element of rows.
NewRows(h, rows) ==
  [h |-> h \o [i \in 1..Len(rows) |-> ArrayObj(rows[i])],
   refs |-> [i \in 1..Len(rows) |-> Len(h) + i]]

SchemaRef(h, t) == h[t].props.schema
RowDataRef(h, t) == h[t].props.rowData
ColumnsRef(h, t) == h[SchemaRef(h, t)].props.columns
MetadataRef(h, t) == h[SchemaRef(h, t)].props.columnMetadata
RowRefs(h, t) == h[RowDataRef(h, t)].elems

\* new Schema(columns, columnMetadata) and new TableRep(schema, rowData)
NewSchema(h, columns, columnMetadata) ==
  New(h, PlainObj([columns |-> columns, columnMetadata |-> columnMetadata]))
NewTableRep(h, schema, rowData) ==
  New(h, PlainObj([schema |-> schema, rowData |-> rowData]))

\* The contents found by following the references from a table.
DerefMetadata(h, m) == [c \in DOMAIN h[m].props |-> h[h[m].props[c]].props]
DerefSchema(h, sch) ==
  Schema(h[h[sch].props.columns].elems, DerefMetadata(h, h[sch].props.columnMetadata))
DerefRows(h, rd) == [i \in 1..Len(h[rd].elems) |-> h[h[rd].elems[i]].elems]
DerefTable(h, t) == TableRep(DerefSchema(h, SchemaRef(h, t)), DerefRows(h, RowDataRef(h, t)))

\* The outcome of a transform on the store: the table returned, or a throw.
Done(h, ref) == [h |-> h, threw |-> FALSE, error |-> "", ref |-> ref]
Failed(h, e) == [h |-> h, threw |-> TRUE, error |-> e, ref |-> 0]

\* pf(subTables) of projectImpl: a new schema over the given column list
\* and the input's columnMetadata object, new rows from d3a.permute
ProjectObjects(h, projectCols, subTables) ==
  LET tableData == subTables[1]
      ps == CalcProjectionPermutation(DerefSchema(h, SchemaRef(h, tableData)), projectCols)
  IN IF ps.threw THEN Failed(h, ps.error)
     ELSE LET cols == New(h, ArrayObj(projectCols))
              ns == NewSchema(cols.h, cols.ref, MetadataRef(h, tableData))
              in == RowRefs(h, tableData)
              out == NewRows(ns.h, [r \in 1..Len(in) |-> Permute(h[in[r]].elems, ps.perm)])
              outRowData == New(out.h, ArrayObj(out.refs))
              tbl == NewTableRep(outRowData.h, ns.ref, outRowData.ref)
          IN Done(tbl.h, tbl.ref)

\* ff(subTables) of filterImpl: a new array onto which the rows kept are
\* pushed, under the input's schema
FilterObjects(h, fexp, subTables) ==
  LET tableData == subTables[1]
      ce == CompileExp(DerefSchema(h, SchemaRef(h, tableData)), fexp)
  IN IF ce.threw THEN Failed(h, ce.error)
     ELSE LET outRows == New(h, ArrayObj(<<>>))
              kept == SelectSeq(RowRefs(h, tableData),
                                LAMBDA row : RunPred(ce.fn, h[row].elems).ret)
              pushed == [outRows.h EXCEPT ![outRows.ref].elems = kept]
              tbl == NewTableRep(pushed, SchemaRef(h, tableData), outRows.ref)
          IN Done(tbl.h, tbl.ref)

\* An array used as its own copy.
SliceSharing(h, a) == [h |-> h, ref |-> a]

\* a.slice(): a new array with the elements of a
Slice(h, a) == New(h, ArrayObj(h[a].elems))

\* a.sort(comparefn) on an array of rows, in place: the stores it can leave
SortInPlace(h, a, rowCmpFn) ==
  LET rows == [i \in 1..Len(h[a].elems) |-> h[h[a].elems[i]].elems]
  IN {[h EXCEPT ![a].elems = q] :
        q \in {q \in Arrangements(h[a].elems) :
                 [i \in 1..Len(q) |-> h[q[i]].elems] \in ArraySort(rows, rowCmpFn)}}

\* sf(subTables) of sortImpl: the outcomes it can have
SortObjects(h, sortKeys, subTables) ==
  LET tableData == subTables[1]
      rsf == CompileSortFunc(DerefSchema(h, SchemaRef(h, tableData)), sortKeys)
      outRows == Slice(h, RowDataRef(h, tableData))
  IN {LET tbl == NewTableRep(sorted, SchemaRef(h, tableData), outRows.ref)
      IN Done(tbl.h, tbl.ref) : sorted \in SortInPlace(outRows.h, outRows.ref, rsf)}

RECURSIVE ConcatObjectsFrom(_, _, _, _)
\* The loop of concatImpl from index i on: res.rowData is assigned the new
\* array that concat returns
ConcatObjectsFrom(h, res, subTables, i) ==
  IF i > Len(subTables) THEN Done(h, res)
  ELSE LET tbl == subTables[i] IN
       IF ~CompatCheck(DerefSchema(h, SchemaRef(h, res)), DerefSchema(h, SchemaRef(h, tbl)))
       THEN Failed(h, "incompatible schema")
       ELSE LET arr == New(h, ArrayObj(RowRefs(h, res) \o RowRefs(h, tbl)))
            IN ConcatObjectsFrom([arr.h EXCEPT ![res].props.rowData = arr.ref],
                                 res, subTables, i + 1)

\* cf(subTables) of concatImpl
ConcatObjects(h, subTables) ==
  LET tbl == subTables[1]
      res == NewTableRep(h, SchemaRef(h, tbl), RowDataRef(h, tbl))
  IN ConcatObjectsFrom(res.h, res.ref, subTables, 2)

\* gbf(subTables) of groupByImpl: a new schema over cols.concat(aggCols) and
\* the input's columnMetadata object; every output row is a new array
GroupByObjects(h, cols, aggs, subTables) ==
  LET tableData == subTables[1]
      res == GroupByImpl(cols, aggs, <<DerefTable(h, tableData)>>)
  IN IF res.threw THEN Failed(h, res.error)
     ELSE LET outCols == New(h, ArrayObj(cols \o aggs))
              outSchema == NewSchema(outCols.h, outCols.ref, MetadataRef(h, tableData))
              out == NewRows(outSchema.h, res.tres.rowData)
              rowData == New(out.h, ArrayObj(out.refs))
              tbl == NewTableRep(rowData.h, outSchema.ref, rowData.ref)
          IN Done(tbl.h, tbl.ref)

RECURSIVE MapColumnsObjectsLoop(_, _, _, _, _)
\* The loop of mapColumnsImpl and of mapColumnsByIndexImpl on the store:
\* a column without an entry in the map keeps its info object, a column with
\* one gets a copy (JSON.parse(JSON.stringify(inColumnInfo))) onto which the
\* entry's keys are written
MapColumnsObjectsLoop(h, tableData, entries, i, st) ==
  LET inColumns == h[ColumnsRef(h, tableData)].elems
      inMetadata == h[MetadataRef(h, tableData)].props
  IN
  IF i > Len(inColumns) \/ st.threw THEN st
  ELSE LET inColumnId == inColumns[i]
           cmapColumnInfo == entries[i]
           known == inColumnId \in DOMAIN inMetadata
       IN
       IF ~cmapColumnInfo.defined
       THEN MapColumnsObjectsLoop(h, tableData, entries, i + 1,
              [st EXCEPT !.outColumns = Append(@, inColumnId),
                         !.outMetadata = IF known THEN (inColumnId :> inMetadata[inColumnId]) @@ @
                                         ELSE @])
       ELSE IF ~known THEN [st EXCEPT !.threw = TRUE]
       ELSE LET info == cmapColumnInfo.info
                outColumnId == IF "id" \in DOMAIN info THEN info["id"] ELSE inColumnId
                copy == New(st.h, PlainObj(st.h[inMetadata[inColumnId]].props))
                keys == DOMAIN info \ {"id"}
                written == [copy.h EXCEPT ![copy.ref].props =
                              [key \in DOMAIN @ \cup keys |->
                                 IF key \in keys THEN info[key] ELSE @[key]]]
            IN MapColumnsObjectsLoop(h, tableData, entries, i + 1,
                 [st EXCEPT !.h = written,
                            !.outColumns = Append(@, outColumnId),
                            !.outMetadata = (outColumnId :> copy.ref) @@ @])

\* mc(subTables): a new schema over the new columns array and the new
\* metadata object, and the input's rowData array
MapColumnsObjectsOutcome(h, tableData, entries) ==
  LET st == MapColumnsObjectsLoop(h, tableData, entries, 1,
              [h |-> h, outColumns |-> <<>>, outMetadata |-> <<>>, threw |-> FALSE])
  IN IF st.threw THEN Failed(st.h, "SyntaxError")
     ELSE LET outColumns == New(st.h, ArrayObj(st.outColumns))
              outMetadata == New(outColumns.h, PlainObj(st.outMetadata))
              outSchema == NewSchema(outMetadata.h, outColumns.ref, outMetadata.ref)
              tbl == NewTableRep(outSchema.h, outSchema.ref, RowDataRef(h, tableData))
          IN Done(tbl.h, tbl.ref)

MapColumnsObjects(h, cmap, subTables) ==
  LET inColumns == h[ColumnsRef(h, subTables[1])].elems IN
  MapColumnsObjectsOutcome(h, subTables[1],
    [i \in 1..Len(inColumns) |->
       IF inColumns[i] \in DOMAIN cmap THEN ColumnMapInfo(cmap[inColumns[i]])
       ELSE NoColumnMapInfo])

MapColumnsByIndexObjects(h, cmap, subTables) ==
  LET inColumns == h[ColumnsRef(h, subTables[1])].elems IN
  MapColumnsObjectsOutcome(h, subTables[1],
    [i \in 1..Len(inColumns) |->
       IF (i - 1) \in DOMAIN cmap THEN ColumnMapInfo(cmap[i - 1]) ELSE NoColumnMapInfo])

\* ef(subTables) of extendImpl: a new columns array, a new metadata object
\* cMap holding the supplied info onto which _.extend writes the input's
\* entries, and for every row a copy (inRow.slice()) with the value pushed
ExtendObjects(h, colId, columnMetadata, ev, subTables) ==
  LET tableData == subTables[1]
      outCols == New(h, ArrayObj(Append(h[ColumnsRef(h, tableData)].elems, colId)))
      supplied == New(outCols.h, PlainObj(columnMetadata))
      cMap == New(supplied.h, PlainObj(colId :> supplied.ref))
      extended == [cMap.h EXCEPT ![cMap.ref].props = h[MetadataRef(h, tableData)].props @@ @]
      outSchema == NewSchema(extended, outCols.ref, cMap.ref)
      in == RowRefs(h, tableData)
      outVal(inRow) == IF ev.isFn THEN ApplyGenerator(ev.fn, inRow) ELSE ev.val
      out == NewRows(outSchema.h,
                     [r \in 1..Len(in) |-> Append(h[in[r]].elems, outVal(h[in[r]].elems))])
      outRows == New(out.h, ArrayObj(out.refs))
      tbl == NewTableRep(outRows.h, outSchema.ref, outRows.ref)
  IN Done(tbl.h, tbl.ref)

\* evalInteriorExp(exp, subTables) on the store: the outcomes it can have
EvalInteriorExpObjects(h, exp, subTables) ==
  IF exp.operator \notin SimpleOperators
  THEN {Failed(h, "reltab query evaluation: unsupported operator")}
  ELSE CASE exp.operator = "project" -> {ProjectObjects(h, exp.valArgs.cols, subTables)}
         [] exp.operator = "groupBy" ->
              {GroupByObjects(h, exp.valArgs.cols, exp.valArgs.aggs, subTables)}
         [] exp.operator = "filter" -> {FilterObjects(h, exp.valArgs.fexp, subTables)}
         [] exp.operator = "mapColumns" -> {MapColumnsObjects(h, exp.valArgs.cmap, subTables)}
         [] exp.operator = "mapColumnsByIndex" ->
              {MapColumnsByIndexObjects(h, exp.valArgs.cmap, subTables)}
         [] exp.operator = "sort" -> SortObjects(h, exp.valArgs.sortKeys, subTables)
         [] exp.operator = "extend" ->
              {ExtendObjects(h, exp.valArgs.colId, exp.valArgs.columnMetadata, exp.valArgs.ev,
                             subTables)}
         [] exp.operator = "concat" -> {ConcatObjects(h, subTables)}

(***************************************************************************)
(* Transforms applied one after another to tables that are shared by       *)
(* reference, as the evaluator hands the table of one value number to      *)
(* every parent of it.                                                     *)
(***************************************************************************)
MaxTables == 3

\* The table loadTable builds from the fetched JSON: every part a new object.
LoadedTable(h, jsonData) ==
  LET columns == jsonData.schema.columns
      md == jsonData.schema.columnMetadata
      cols == New(h, ArrayObj(columns))
      infos == [h |-> cols.h \o [i \in 1..Len(columns) |-> PlainObj(md[columns[i]])],
                refs |-> [i \in 1..Len(columns) |-> Len(cols.h) + i]]
      metadata == New(infos.h,
                      PlainObj([c \in DOMAIN md |->
                                  infos.refs[CHOOSE i \in 1..Len(columns) : columns[i] = c]]))
      schema == NewSchema(metadata.h, cols.ref, metadata.ref)
      rows == NewRows(schema.h, jsonData.rowData)
      rowData == New(rows.h, ArrayObj(rows.refs))
  IN NewTableRep(rowData.h, schema.ref, rowData.ref)

SharedSchema ==
  Schema(<<"a", "b">>, [c \in {"a", "b"} |-> IF c = "a" THEN IntegerColumn ELSE TextColumn])
SharedRows == {<<Num(2), Str(<<1>>)>>, <<Num(1), Str(<<1>>)>>}

\* The nodes applied; the children stand for the tables they are applied to.
\* Column a, the sort key, is a column of every table they yield.
Transforms ==
  LET t == TableQuery("t1") IN
  << ProjectQuery(<<"a">>, t),
     ProjectQuery(<<"b", "a">>, t),
     GroupByQuery(<<"b">>, <<"a">>, t),
     FilterQuery(FilterExp("AND", <<RelExp("GE", ColRef("a"), ConstVal(Num(2)))>>), t),
     MapColumnsQuery("b" :> ("id" :> "x"), t),
     MapColumnsQuery("a" :> ("displayName" :> "A"), t),
     MapColumnsByIndexQuery(0 :> ("type" :> "text"), t),
     ExtendQuery("c", IntegerColumn, Constant(Num(3)), t),
     ExtendQuery("b", IntegerColumn, Generator("one"), t),
     SortQuery(<< <<"a", TRUE>> >>, t),
     SortQuery(<< <<"a", FALSE>> >>, t),
     ConcatQuery(t, t) >>

InitShared ==
  /\ InitEvaluator
  /\ OpIdle
  /\ AggIdle
  /\ SrcIdle
  /\ \E rowData \in SeqsUpTo(SharedRows, MaxRows) :
       LET tbl == LoadedTable(<<>>, TableRep(SharedSchema, rowData)) IN
       /\ objects = tbl.h
       /\ tables = <<[ref |-> tbl.ref, threw |-> FALSE,
                      tableData |-> TableRep(SharedSchema, rowData),
                      exp |-> TableQuery("t1"), subTables |-> <<>>]>>

\* The then-callback of evalTable for a node whose children's tables are
\* the tables numbered ins.
EvalInteriorOnObjects(exp, ins) ==
  /\ Len(tables) < MaxTables
  /\ Len(ins) = Len(exp.tableArgs)
  /\ \A i \in 1..Len(ins) : ~tables[ins[i]].threw
  /\ \E out \in EvalInteriorExpObjects(objects, exp,
                                       [i \in 1..Len(ins) |-> tables[ins[i]].ref]) :
       /\ objects' = out.h
       /\ tables' = Append(tables,
                      [ref |-> out.ref, threw |-> out.threw,
                       tableData |-> IF out.threw THEN Undefined
                                     ELSE DerefTable(out.h, out.ref),
                       exp |-> exp, subTables |-> ins])
  /\ UNCHANGED <<evalVars, opVars, aggVars, srcVars>>

NextShared ==
  \E k \in 1..Len(Transforms), ins \in SeqsUpTo(1..Len(tables), 2) :
    EvalInteriorOnObjects(Transforms[k], ins)

SpecShared == InitShared /\ [][NextShared]_vars

(***************************************************************************)
(* The table source on its own: tableRefImpl called for any names, in any  *)
(* order, by any number of evaluations, while fetches end well or not.     *)
(***************************************************************************)
MaxRefs == 5

\* tableRefImpl(tableName), as evalBaseExp calls it.  refs records, per call,
\* the promise returned, the load that promise belongs to (the name's latest
\* load: the cache holds the promise of the last loadTable call) and the
\* state of the name's fetch the call met.
TableRefRequest(tableName) ==
  /\ Len(refs) < MaxRefs
  /\ LET st == TableRefImpl(EvalState, tableName) IN
       /\ tableCache' = st.tableCache
       /\ fetches' = st.fetches
       /\ heap' = st.heap
       /\ refs' = Append(refs, [tableName |-> tableName, ret |-> st.ret,
                                load |-> st.fetches[tableName].issued,
                                met |-> fetches[tableName].state])
  /\ UNCHANGED <<settled, query, invMap, valExps, promises, numbered, started, calls,
                 requests, opVars, aggVars, objVars>>

InitTableSource == InitEvaluator /\ OpIdle /\ AggIdle /\ ObjIdle /\ SrcIdle

NextTableSource ==
  \/ \E tableName \in TableNames : TableRefRequest(tableName)
  \/ \E tableName \in TableNames, ok \in BOOLEAN : FetchDone(tableName, ok)

SpecTableSource == InitTableSource /\ [][NextTableSource]_vars

(***************************************************************************)
(* Properties of the evaluator.                                            *)
(***************************************************************************)
\* The value number of the query's root, once localEvalQuery has run.
RootNum == Len(valExps) - 1
IsInterior(n) == Len(valExps[n + 1].tableNums) > 0
StateOf(n) == IF n \in DOMAIN promises THEN heap[promises[n]].state ELSE "none"

RECURSIVE HasUnknownOperator(_)
HasUnknownOperator(q) ==
  \/ q.operator = "bogus"
  \/ \E i \in 1..Len(q.tableArgs) : HasUnknownOperator(q.tableArgs[i])

\* Two visited nodes with the same operator tag, the same literal arguments
\* and pairwise equal child value numbers have the same value number.
SameNodeSameNumber ==
  \A i, j \in 1..Len(numbered) :
    ( /\ numbered[i].exp.operator = numbered[j].exp.operator
      /\ numbered[i].exp.valArgs = numbered[j].exp.valArgs
      /\ numbered[i].tableNums = numbered[j].tableNums )
    => numbered[i].valNum = numbered[j].valNum

\* C1 (as amended): buildCSEMap gives two nodes the same value number whenever
\* they have the same operator tag, the same literal arguments and children
\* with pairwise equal value numbers; the operator transform (or base-table
\* resolve) of a value number is never executed more than once, and it is
\* executed exactly once for every value number when the result of the root
\* is successfully completed.
C1_SharedAndRunOnce ==
  /\ SameNodeSameNumber
  /\ \A n \in ValNums : Len(calls[n]) <= 1
  /\ (requests # <<>> /\ StateOf(RootNum) = "fulfilled")
       => \A n \in ValNums : Len(calls[n]) = 1

\* C1, witness: a tree in which an interior subexpression occurs twice has
\* been evaluated to the end, and its shared value number was run once.
C1_Witness ==
  /\ requests # <<>>
  /\ StateOf(RootNum) = "fulfilled"
  /\ \E i, j \in 1..Len(numbered) :
       /\ i < j
       /\ numbered[i].valNum = numbered[j].valNum
       /\ numbered[i].tableNums # <<>>
       /\ Len(calls[numbered[i].valNum]) = 1

\* C1 as stated: once the evaluation of a tree has ended, every value number
\* has been executed exactly once.  (Stated here for the evaluations of trees
\* with known operators only, all of whose loads succeed.)
C1_Original_ExactlyOnce ==
  ( /\ requests # <<>>
    /\ ~HasUnknownOperator(query)
    /\ \A name \in TableNames : fetches[name].state # "failed"
    /\ StateOf(RootNum) \in {"fulfilled", "rejected"} )
  => \A n \in ValNums : Len(calls[n]) = 1

\* C2: the computation of a value number is started at most once, and every
\* request for it receives the same promise.
C2_StartedOnceSameResult ==
  /\ \A n \in ValNums : started[n] <= 1
  /\ \A i, j \in 1..Len(requests) :
       (i < j /\ requests[i].tableId = requests[j].tableId)
       => /\ ~requests[i].threw
          /\ ~requests[j].threw
          /\ requests[i].resp = requests[j].resp

RECURSIVE Dependencies(_)
\* The value numbers that value number n depends on, transitively.
Dependencies(n) ==
  LET kids == {valExps[n + 1].tableNums[i] : i \in 1..Len(valExps[n + 1].tableNums)}
  IN kids \cup UNION {Dependencies(c) : c \in kids}

\* C3: whenever the transform of an interior node has run, the results of all
\* its dependencies are completed, and it has received the completed tables
\* of its children in the node's child order.
C3_RunsAfterChildrenInOrder ==
  \A n \in ValNums :
    (IsInterior(n) /\ calls[n] # <<>>)
    => /\ \A d \in Dependencies(n) : StateOf(d) = "fulfilled"
       /\ \A k \in 1..Len(calls[n]) :
            calls[n][k] = [i \in 1..Len(valExps[n + 1].tableNums) |->
                             heap[promises[valExps[n + 1].tableNums[i]]].value]

\* C3, witness: a transform has run over two different children, one of them
\* an interior node, whose second child completed before its first.
C3_Witness ==
  \E n \in ValNums :
    /\ Len(valExps[n + 1].tableNums) = 2
    /\ calls[n] # <<>>
    /\ LET a == valExps[n + 1].tableNums[1]
           b == valExps[n + 1].tableNums[2]
       IN /\ a # b
          /\ IsInterior(a) \/ IsInterior(b)
          /\ SettleIndex(settled, promises[b]) < SettleIndex(settled, promises[a])
          /\ calls[n][1][1] # calls[n][1][2]

\* C4: two extend nodes over the same child with the same column identifier
\* and metadata but different generators have different value numbers, and
\* the expression evaluated for a node's value number carries the node's own
\* literal arguments.  (Stated for the trees whose operators are all known.)
C4_NoFalseMerging ==
  HasUnknownOperator(query) \/
  /\ \A i, j \in 1..Len(numbered) :
       ( /\ numbered[i].exp.operator = "extend"
         /\ numbered[j].exp.operator = "extend"
         /\ numbered[i].tableNums = numbered[j].tableNums
         /\ numbered[i].exp.valArgs.colId = numbered[j].exp.valArgs.colId
         /\ numbered[i].exp.valArgs.columnMetadata = numbered[j].exp.valArgs.columnMetadata
         /\ numbered[i].exp.valArgs.ev # numbered[j].exp.valArgs.ev )
       => numbered[i].valNum # numbered[j].valNum
  /\ \A i \in 1..Len(numbered) :
       valExps[numbered[i].valNum + 1].exp.valArgs = numbered[i].exp.valArgs

\* C5: no evaluation request ends with a synchronous exception: each returns
\* the memoized promise of its value number.
C5_FailuresStayInThePromise ==
  \A i \in 1..Len(requests) :
    /\ ~requests[i].threw
    /\ requests[i].tableId \in DOMAIN promises
    /\ requests[i].resp = promises[requests[i].tableId]

\* C6: the promise of a table whose load failed is rejected, and no operator
\* transform is applied to an absent table.  (Stated for the trees whose
\* operators are all known.)
C6_LoadFailureRejects ==
  HasUnknownOperator(query) \/
  /\ \A name \in TableNames :
       fetches[name].state = "failed" => heap[tableCache[name]].state = "rejected"
  /\ \A n \in ValNums : \A k \in 1..Len(calls[n]) : \A i \in 1..Len(calls[n][k]) :
       ~IsUndefined(calls[n][k][i])

(***************************************************************************)
(* Properties of the accumulators and of the operators.                    *)
(***************************************************************************)
Present(vals) == SelectSeq(vals, LAMBDA v : v # Null)

\* The value all present values of vals agree on, absent when there is no
\* present value or two of them differ.
AgreedValue(vals) ==
  LET p == Present(vals) IN
  IF p # <<>> /\ \A i \in 1..Len(p) : p[i] = p[1] THEN p[1] ELSE Null

\* C7: finalize of a UniqAgg fed any sequence of present and absent values
\* returns the value the present ones agree on, and absent when there is no
\* present value or two of them differ; in particular absent inputs do not
\* change the outcome.
C7_UniqAggAgreement ==
  (acc.cls = "UniqAgg" /\ finalized # NotFinalized) => finalized = AgreedValue(fed)

RECURSIVE SumPresent(_)
SumPresent(vals) ==
  IF vals = <<>> THEN 0
  ELSE (IF Head(vals) = Null THEN 0 ELSE Head(vals).n) + SumPresent(Tail(vals))

\* The cells of row in the columns cols
KeyOf(schema, cols, row) == [i \in 1..Len(cols) |-> row[ColumnIndex(schema, cols[i])]]

KnownColumns(schema, cols) ==
  \A i \in 1..Len(cols) : \E c \in 1..Len(schema.columns) : schema.columns[c] = cols[i]

GroupByApplied == call.exp.operator = "groupBy" /\ tres # NotRun

\* C8: groupBy yields one row per distinct tuple of key values, in the
\* order in which the keys first occur in the input; a row is its key values
\* followed by one cell per aggregate column, which for a numeric column is
\* the sum of the column's present values over the input rows with that key.
C8_GroupByOneRowPerKey ==
  LET in == call.subTables[1]
      cols == call.exp.valArgs.cols
      aggs == call.exp.valArgs.aggs
  IN
  (GroupByApplied /\ KnownColumns(in.schema, cols \o aggs)) =>
    LET n == Len(in.rowData)
        keys == [i \in 1..n |-> KeyOf(in.schema, cols, in.rowData[i])]
        firsts == SelectSeq([i \in 1..n |-> i], LAMBDA i : \A j \in 1..(i - 1) : keys[j] # keys[i])
        out == tres.tres.rowData
    IN /\ ~tres.threw
       /\ Len(out) = Len(firsts)
       /\ \A g \in 1..Len(firsts) :
            /\ Len(out[g]) = Len(cols) + Len(aggs)
            /\ SubSeq(out[g], 1, Len(cols)) = keys[firsts[g]]
            /\ \A a \in 1..Len(aggs) :
                 ColumnType(in.schema, aggs[a]) \in {"integer", "real"} =>
                   LET members == SelectSeq(in.rowData,
                                    LAMBDA row : KeyOf(in.schema, cols, row) = keys[firsts[g]])
                       vals == [m \in 1..Len(members) |->
                                  members[m][ColumnIndex(in.schema, aggs[a])]]
                   IN out[g][Len(cols) + a] = Num(SumPresent(vals))

\* groupBy k summing v over rows keyed b, a, b, the second with an absent v:
\* two rows, b first, with sums 3 and 0.
C8_Witness ==
  /\ GroupByApplied
  /\ call.exp.valArgs.cols = <<"k">>
  /\ call.exp.valArgs.aggs = <<"v">>
  /\ call.subTables[1].rowData = << <<Str(<<2>>), Num(1), Num(2)>>,
                                     <<Str(<<1>>), Num(1), Null>>,
                                     <<Str(<<2>>), Null, Num(1)>> >>
  /\ tres = Return(TableRep(Schema(<<"k", "v">>, GroupBySchema.columnMetadata),
                            << <<Str(<<2>>), Num(3)>>, <<Str(<<1>>), Num(0)>> >>))

RECURSIVE IsAndOfComparisons(_, _), Leaves(_)
\* An AND expression over comparisons of known columns and constants and
\* over nested expressions of the same kind
IsAndOfComparisons(schema, fexp) ==
  /\ fexp.op = "AND"
  /\ \A i \in 1..Len(fexp.opArgs) :
       LET se == fexp.opArgs[i] IN
       IF se.expType = "RelExp"
       THEN /\ se.op \in RelOps
            /\ \A v \in {se.lhs, se.rhs} :
                 v.expType = "ColRef" => KnownColumns(schema, <<v.colName>>)
       ELSE IsAndOfComparisons(schema, se)

RECURSIVE LeavesFrom(_, _)
\* The comparisons of fexp in listed order, nested expressions expanded in place
Leaves(fexp) == LeavesFrom(fexp.opArgs, 1)
LeavesFrom(args, i) ==
  IF i > Len(args) THEN <<>>
  ELSE (IF args[i].expType = "RelExp" THEN <<args[i]>> ELSE Leaves(args[i]))
       \o LeavesFrom(args, i + 1)

ValueOf(schema, vexp, row) ==
  IF vexp.expType = "ColRef" THEN row[ColumnIndex(schema, vexp.colName)] ELSE vexp.val

\* The truth of a comparison of numbers on a row
Holds(schema, rel, row) ==
  LET l == ValueOf(schema, rel.lhs, row).n
      r == ValueOf(schema, rel.rhs, row).n
  IN CASE rel.op = "EQ" -> l = r
       [] rel.op = "GT" -> l > r
       [] rel.op = "GE" -> l >= r
       [] rel.op = "LE" -> l <= r
       [] rel.op = "LT" -> l < r

\* The comparisons up to and including the first that is false on row
UpToFirstFalse(schema, leaves, row) ==
  LET false == {i \in 1..Len(leaves) : ~Holds(schema, leaves[i], row)}
  IN IF false = {} THEN leaves
     ELSE SubSeq(leaves, 1, CHOOSE i \in false : \A j \in false : i <= j)

FilterApplied == call.exp.operator = "filter" /\ tres # NotRun

\* C9: for an AND expression over comparisons and nested ANDs, filter
\* returns a table with the input's schema whose rows are the input rows on
\* which every comparison is true, in input order; on each row the
\* comparisons are evaluated in listed order up to the first false one.
C9_FilterKeepsRowsWhereAllTrue ==
  LET in == call.subTables[1]
      fexp == call.exp.valArgs.fexp
  IN
  (FilterApplied /\ IsAndOfComparisons(in.schema, fexp)) =>
    LET leaves == Leaves(fexp) IN
    /\ tres = Return(TableRep(in.schema,
                SelectSeq(in.rowData,
                  LAMBDA row : \A i \in 1..Len(leaves) : Holds(in.schema, leaves[i], row))))
    /\ \A r \in 1..Len(in.rowData) :
         LET expected == UpToFirstFalse(in.schema, leaves, in.rowData[r]) IN
         RunPred(CompileExp(in.schema, fexp).fn, in.rowData[r]).evald
           = [i \in 1..Len(expected) |-> CompileRelOp(in.schema, expected[i]).fn]

\* (a >= 2 AND 3 > a) AND a = 2 on rows with a = 1, 2, 3: only the second
\* row is kept, and on the first row only a >= 2 is evaluated.
C9_Witness ==
  /\ FilterApplied
  /\ call.exp.valArgs.fexp =
       FilterExp("AND", <<FilterExp("AND", <<RelExp("GE", ColRef("a"), ConstVal(Num(2))),
                                             RelExp("GT", ConstVal(Num(3)), ColRef("a"))>>),
                          RelExp("EQ", ColRef("a"), ConstVal(Num(2)))>>)
  /\ call.subTables[1].rowData = << <<Num(1), Num(2)>>, <<Num(2), Num(2)>>, <<Num(3), Num(2)>> >>
  /\ tres = Return(TableRep(FilterSchema, << <<Num(2), Num(2)>> >>))
  /\ Len(RunPred(CompileExp(FilterSchema, call.exp.valArgs.fexp).fn, <<Num(1), Num(2)>>).evald) = 1

\* s1 comes before s2 in lexicographic order
LexLess(s1, s2) ==
  \E p \in 0..Len(s1) :
    /\ p <= Len(s2)
    /\ \A i \in 1..p : s1[i] = s2[i]
    /\ IF p = Len(s1) THEN p < Len(s2) ELSE p < Len(s2) /\ s1[p + 1] < s2[p + 1]

\* The order of two present values under one key
KeyBefore(schema, key, rowa, rowb) ==
  LET idx == ColumnIndex(schema, key[1])
      x == IF key[2] THEN rowa[idx] ELSE rowb[idx]
      y == IF key[2] THEN rowb[idx] ELSE rowa[idx]
  IN IF ColumnType(schema, key[1]) = "text"
     THEN x.k = "string" /\ y.k = "string" /\ LexLess(x.s, y.s)
     ELSE x.k = "number" /\ y.k = "number" /\ x.n < y.n

SameOnKey(schema, key, rowa, rowb) ==
  rowa[ColumnIndex(schema, key[1])] = rowb[ColumnIndex(schema, key[1])]

\* rowa comes before rowb under the first key on which they differ
RowBefore(schema, keys, rowa, rowb) ==
  \E k \in 1..Len(keys) :
    /\ \A m \in 1..(k - 1) : SameOnKey(schema, keys[m], rowa, rowb)
    /\ KeyBefore(schema, keys[k], rowa, rowb)

SortApplied == call.exp.operator = "sort" /\ tres # NotRun

\* C10: sort returns the input rows as a permutation in which no row comes
\* after a row it precedes under the first key, left to right, on which the
\* two differ (lexicographic order for text, numeric order for numbers,
\* reversed for a descending key), and rows equal on all keys keep their
\* input order.
C10_SortedByKeysStable ==
  SortApplied =>
    LET in == call.subTables[1]
        keys == call.exp.valArgs.sortKeys
        out == tres.tres.rowData
        n == Len(in.rowData)
    IN /\ ~tres.threw
       /\ tres.tres.schema = in.schema
       /\ Len(out) = n
       /\ \A i \in 1..n : \E j \in 1..n : out[j] = in.rowData[i]
       /\ \A i, j \in 1..n :
            i < j => /\ ~RowBefore(in.schema, keys, out[j], out[i])
                     /\ (\A m \in 1..Len(keys) : SameOnKey(in.schema, keys[m], out[i], out[j]))
                          => out[i][3].n < out[j][3].n

\* With every text cell present the order of C10 is the one sort produces.
SortedWhenTextPresent ==
  (\A i \in 1..Len(call.subTables[1].rowData) : call.subTables[1].rowData[i][1] # Null)
    => C10_SortedByKeysStable

ExtendApplied == call.exp.operator = "extend" /\ tres # NotRun

\* C11: extend returns the input's column list with columnId appended; the
\* metadata entry of columnId is the supplied metadata, also when the input
\* schema already has an entry for columnId, and the metadata of every other
\* column is the input's.
C11_ExtendMetadataIsSupplied ==
  ExtendApplied =>
    LET in == call.subTables[1].schema
        colId == call.exp.valArgs.colId
    IN /\ ~tres.threw
       /\ tres.tres.schema.columns = Append(in.columns, colId)
       /\ colId \in DOMAIN tres.tres.schema.columnMetadata
       /\ tres.tres.schema.columnMetadata[colId] = call.exp.valArgs.columnMetadata
       /\ \A c \in DOMAIN in.columnMetadata \ {colId} :
            /\ c \in DOMAIN tres.tres.schema.columnMetadata
            /\ tres.tres.schema.columnMetadata[c] = in.columnMetadata[c]

\* Without a previous metadata entry for columnId the schema of C11 is the
\* one extend produces.
ExtendMetadataWhenNew ==
  call.exp.valArgs.colId \notin DOMAIN call.subTables[1].schema.columnMetadata
    => C11_ExtendMetadataIsSupplied

\* C12: no transform changes a table that exists when it runs: every table
\* on the store still has the row sequence, the rows and the schema (column
\* list and metadata) it had when it was built, whatever was applied to it
\* or to tables sharing its parts since.
C12_InputsUnchanged ==
  \A i \in 1..Len(tables) :
    ~tables[i].threw => DerefTable(objects, tables[i].ref) = tables[i].tableData

\* A loaded table with rows a = 2, a = 1 has two parents: a sort by a, whose
\* result holds the same row objects in the other order in an array of its
\* own, and then a second transform.
C12_Witness ==
  /\ Len(tables) = 3
  /\ tables[1].tableData.rowData = << <<Num(2), Str(<<1>>)>>, <<Num(1), Str(<<1>>)>> >>
  /\ tables[2].exp = SortQuery(<< <<"a", TRUE>> >>, TableQuery("t1"))
  /\ tables[2].subTables = <<1>>
  /\ tables[3].subTables = <<1>>
  /\ ~tables[3].threw
  /\ tables[2].tableData.rowData = << <<Num(1), Str(<<1>>)>>, <<Num(2), Str(<<1>>)>> >>
  /\ RowDataRef(objects, tables[2].ref) # RowDataRef(objects, tables[1].ref)
  /\ RowRefs(objects, tables[2].ref) =
       <<RowRefs(objects, tables[1].ref)[2], RowRefs(objects, tables[1].ref)[1]>>

\* What a transform leaves on the store is what evalInteriorExp computes
\* from the contents of its inputs.
ObjectsAgreeWithTransforms ==
  \A i \in 1..Len(tables) :
    tables[i].subTables # <<>> =>
      LET outcomes == EvalInteriorExp(tables[i].exp,
                        [j \in 1..Len(tables[i].subTables) |->
                           tables[tables[i].subTables[j]].tableData])
      IN IF tables[i].threw THEN \E o \in outcomes : o.threw
         ELSE Return(tables[i].tableData) \in outcomes

\* C13: whatever the sequence of table-source requests and whatever the state
\* of the earlier loads (pending, succeeded, failed), at most one load is
\* issued per table name, and every request for a name returns the promise
\* the first request for that name returned.
C13_OneLoadPerName ==
  /\ \A name \in TableNames : fetches[name].issued <= 1
  /\ \A i, j \in 1..Len(refs) :
       refs[i].tableName = refs[j].tableName =>
         /\ refs[i].ret = refs[j].ret
         /\ refs[i].load = refs[j].load

\* One name was requested while its load was pending and again after it had
\* failed, and another name after its load had succeeded.
C13_Witness ==
  \E i, j, k \in 1..Len(refs) :
    /\ i < j
    /\ refs[i].tableName = refs[j].tableName
    /\ refs[i].met = "pending"
    /\ refs[j].met = "failed"
    /\ refs[k].tableName # refs[i].tableName
    /\ refs[k].met = "loaded"
    /\ \A name \in TableNames : fetches[name].issued = 1

====
